---------------------------- MODULE Spec2Model ----------------------------
(***************************************************************************)
(* Model of pytorch_ipynb/mechanics/deterministic_benchmark.ipynb: the two *)
(* reproducibility helpers (set_all_seeds, set_deterministic) and the      *)
(* notebook's cells that run a ResNet-101 training twice, first without    *)
(* and then with deterministic behaviour.                                  *)
(*                                                                         *)
(* Two specifications share the process state:                             *)
(*   SpecAPI - the two helpers called in any order with seeds drawn from   *)
(*             SeedInputs, interleaved with draws from the generators;     *)
(*   Spec    - the notebook executed top to bottom, one cell at a time.    *)
(***************************************************************************)
EXTENDS Integers, Sequences, FiniteSets, TLC

VARIABLES
    numGpu,     \* number of CUDA devices of the machine (0: no accelerator)
    rng,        \* os.environ["PL_GLOBAL_SEED"] and the generators' states
    flags,      \* cudnn.benchmark, cudnn.deterministic, deterministic mode
    exc,        \* "none", or the exception that ended the process
    last,       \* the most recent operation of the process
    prev,       \* rng and flags as they were before the most recent operation
    pc,         \* execution count of the notebook cell to run next
    cfg,        \* the names bound by the SETTINGS cell
    objs,       \* train_loader, test_loader, model, optimizer
    training,   \* a train(...) call is in progress
    epoch,      \* epochs completed by the train(...) call in progress
    log,        \* the calls made by the notebook's cells, in order
    clock,      \* time since the train(...) call began, in units of 0.005 min
    out         \* what the train(...) call has printed last

nbvars == <<pc, cfg, objs, training, epoch, log, clock, out>>

vars == <<numGpu, rng, flags, exc, last, prev, pc, cfg, objs, training,
          epoch, log, clock, out>>

-----------------------------------------------------------------------------
(* Python integers are unbounded.  A seed is a sign and a magnitude; the   *)
(* magnitude is a little-endian sequence of 16-bit limbs without leading   *)
(* zero limbs, so that 2^32 and 2^64 are representable.                    *)

Limb == 2^16

PyInt(neg, mag) == [neg |-> neg /\ mag # <<>>, mag |-> mag]

Nat16(n) == PyInt(FALSE, IF n = 0 THEN <<>> ELSE <<n>>)

\* mag < 2^(16*k)
BelowLimbs(mag, k) == Len(mag) <= k

\* mag <= 2^63
AtMostTwo63(mag) ==
    \/ Len(mag) <= 3
    \/ /\ Len(mag) = 4
       /\ \/ mag[4] < 2^15
          \/ mag[4] = 2^15 /\ mag[1] = 0 /\ mag[2] = 0 /\ mag[3] = 0

WithLimb(rest, d) == [q |-> Append(rest.q, d), r |-> rest.r]

\* schoolbook division by 10 of the limbs 1..i of mag, top limb first, with
\* the remainder of the limbs above carried in
RECURSIVE Div10From(_, _, _)
Div10From(mag, i, carry) ==
    IF i = 0 THEN [q |-> <<>>, r |-> carry]
    ELSE WithLimb(Div10From(mag, i - 1, (carry * Limb + mag[i]) % 10),
                  (carry * Limb + mag[i]) \div 10)

RECURSIVE Normalize(_)
Normalize(mag) ==
    IF mag = <<>> \/ mag[Len(mag)] # 0 THEN mag
    ELSE Normalize(SubSeq(mag, 1, Len(mag) - 1))

\* quotient and remainder of mag by 10
DivMod10(mag) == Div10From(mag, Len(mag), 0)

Digit(d) ==
    CASE d = 0 -> "0" [] d = 1 -> "1" [] d = 2 -> "2" [] d = 3 -> "3"
      [] d = 4 -> "4" [] d = 5 -> "5" [] d = 6 -> "6" [] d = 7 -> "7"
      [] d = 8 -> "8" [] d = 9 -> "9"

\* the decimal digits of a magnitude, most significant first
RECURSIVE Decimal(_)
DecimalOf(dm) == Append(Decimal(Normalize(dm.q)), Digit(dm.r))

Decimal(mag) == IF mag = <<>> THEN <<>> ELSE DecimalOf(DivMod10(mag))

\* str(seed) of a Python int; a Python string is the sequence of its
\* characters
str(seed) ==
    IF seed.mag = <<>> THEN <<"0">>
    ELSE (IF seed.neg THEN <<"-">> ELSE <<>>) \o Decimal(seed.mag)

\* 0xffff_ffff_ffff_ffff + seed for a negative seed of magnitude mag <= 2^63
RemapNegative(mag) ==
    LET m4 == [i \in 1..4 |-> IF i <= Len(mag) THEN mag[i] ELSE 0]
    IN  Normalize([i \in 1..4 |-> (Limb - 1) - m4[i]])

-----------------------------------------------------------------------------
(* The pseudo-random generators.  A generator's state is a function of the *)
(* key it was last seeded with and of the number of values drawn since; a  *)
(* generator the program has not seeded is in the library's start state.   *)
(* The key is the integer the library derives from the seed it is given.   *)

Unseeded == [seeded |-> FALSE, key |-> Nat16(0), pos |-> 0]

Seeded(key) == [seeded |-> TRUE, key |-> key, pos |-> 0]

Advance(g) == [g EXCEPT !.pos = @ + 1]

Ok(r) == [rng |-> r, exc |-> "none"]

Raise(r, e) == [rng |-> r, exc |-> e]

\* os.environ["PL_GLOBAL_SEED"] = str(seed)
environ_set(r, seed) == Ok([r EXCEPT !.env = str(seed)])

\* random.seed(seed): an int of any size is accepted, its absolute value used
random__seed(r, seed) == Ok([r EXCEPT !.py = Seeded(PyInt(FALSE, seed.mag))])

\* np.random.seed that re-keys the generator but keeps its position
np_random_seed_keeps_position(r, seed) ==
    IF seed.neg \/ ~BelowLimbs(seed.mag, 2) THEN Raise(r, "ValueError")
    ELSE Ok([r EXCEPT !.np = [seeded |-> TRUE, key |-> seed, pos |-> @.pos]])

\* np.random.seed(seed): "Seed must be between 0 and 2**32 - 1"
np_random_seed(r, seed) ==
    IF seed.neg \/ ~BelowLimbs(seed.mag, 2) THEN Raise(r, "ValueError")
    ELSE Ok([r EXCEPT !.np = Seeded(seed)])

\* the range a torch generator accepts: [-0x8000_0000_0000_0000,
\* 0xffff_ffff_ffff_ffff], negative seeds remapped to positive ones
TorchAccepts(seed) ==
    IF seed.neg THEN AtMostTwo63(seed.mag) ELSE BelowLimbs(seed.mag, 4)

TorchKey(seed) ==
    IF seed.neg THEN PyInt(FALSE, RemapNegative(seed.mag)) ELSE seed

\* torch.cuda.manual_seed_all(seed): every device's generator; silently
\* ignored when CUDA is not available
torch_cuda_manual_seed_all(r, seed) ==
    IF r.cuda = <<>> THEN Ok(r)
    ELSE IF ~TorchAccepts(seed) THEN Raise(r, "RuntimeError")
    ELSE Ok([r EXCEPT !.cuda = [d \in DOMAIN r.cuda |-> Seeded(TorchKey(seed))]])

\* torch.manual_seed that re-keys the CPU generator but keeps its position
torch_manual_seed_keeps_position(r, seed) ==
    LET c == torch_cuda_manual_seed_all(r, seed)
    IN  IF c.exc # "none" THEN c
        ELSE IF ~TorchAccepts(seed) THEN Raise(c.rng, "RuntimeError")
        ELSE Ok([c.rng EXCEPT !.torch =
                    [seeded |-> TRUE, key |-> TorchKey(seed), pos |-> @.pos]])

\* torch.manual_seed(seed): seeds the CUDA generators, then the CPU one
torch_manual_seed(r, seed) ==
    LET c == torch_cuda_manual_seed_all(r, seed)
    IN  IF c.exc # "none" THEN c
        ELSE IF ~TorchAccepts(seed) THEN Raise(c.rng, "RuntimeError")
        ELSE Ok([c.rng EXCEPT !.torch = Seeded(TorchKey(seed))])

\* the next statement of a function body: skipped once an exception is raised
Then(res, Stmt(_, _), seed) ==
    IF res.exc # "none" THEN res ELSE Stmt(res.rng, seed)

\* set_all_seeds with the np.random.seed(seed) line left out
set_all_seeds_no_numpy(r, seed) ==
    Then(Then(Then(environ_set(r, seed),
        random__seed, seed),
        torch_manual_seed, seed),
        torch_cuda_manual_seed_all, seed)

set_all_seeds(r, seed) ==
    Then(Then(Then(Then(environ_set(r, seed),
        random__seed, seed),
        np_random_seed, seed),
        torch_manual_seed, seed),
        torch_cuda_manual_seed_all, seed)

torch_cuda_is_available(ngpu) == ngpu > 0

\* torch.set_deterministic(True)
torch_set_deterministic(f, b) == [f EXCEPT !.detAlgos = b]

\* set_deterministic with the two cuDNN values exchanged
set_deterministic_swapped(f, ngpu) ==
    LET f1 == IF torch_cuda_is_available(ngpu)
              THEN [f EXCEPT !.benchmark = TRUE, !.deterministic = FALSE]
              ELSE f
    IN  torch_set_deterministic(f1, TRUE)

\* set_deterministic that sets the cuDNN flags without asking for a device
set_deterministic_no_check(f, ngpu) ==
    torch_set_deterministic(
        [f EXCEPT !.benchmark = FALSE, !.deterministic = TRUE], TRUE)

set_deterministic(f, ngpu) ==
    LET f1 == IF torch_cuda_is_available(ngpu)
              THEN [f EXCEPT !.benchmark = FALSE, !.deterministic = TRUE]
              ELSE f
    IN  torch_set_deterministic(f1, TRUE)

-----------------------------------------------------------------------------
(* The state of a process.                                                 *)

MaxGpu == 1
MaxDraws == 1
MaxEpochTicks == 1      \* an epoch takes at most this many units of time
NumExamples == 2        \* training examples the accuracy is computed over

\* a fresh interpreter: PL_GLOBAL_SEED not set (no characters), generators
\* in their start state
FreshRng(ngpu) ==
    [env |-> <<>>, py |-> Unseeded, np |-> Unseeded, torch |-> Unseeded,
     cuda |-> [d \in 1..ngpu |-> Unseeded]]

\* torch's defaults
DefaultFlags == [benchmark |-> FALSE, deterministic |-> FALSE, detAlgos |-> FALSE]

AllFlags == [benchmark : BOOLEAN, deterministic : BOOLEAN, detAlgos : BOOLEAN]

NoCall == [fn |-> "none", seed |-> Nat16(0)]

\* the kernel's namespace before the SETTINGS cell and before the first run
NoSettings ==
    [defined |-> FALSE, DEVICE |-> "", num_classes |-> 0, random_seed |-> 0,
     learning_rate |-> [num |-> 0, den |-> 1], batch_size |-> 0,
     num_epochs |-> 0]

NoObjects ==
    [train_loader |-> 0, test_loader |-> 0,
     model |-> [id |-> 0, device |-> "", epochs |-> 0],
     optimizer |-> [id |-> 0, model |-> 0, steps |-> 0]]

\* nothing printed yet by a train(...) call; times in hundredths of a
\* minute, accuracy in thousandths of a percent
NoOutput ==
    [epoch |-> 0, acc |-> 0, elapsed |-> 0, before |-> 0, deltas |-> 0,
     total |-> 0, totals |-> 0]

\* the seeds the helpers are called with: 0, 1, -1, 2^32 - 1, 2^32, 2^64
SeedInputs ==
    { Nat16(0), Nat16(1), PyInt(TRUE, <<1>>),
      PyInt(FALSE, <<Limb - 1, Limb - 1>>), PyInt(FALSE, <<0, 0, 1>>),
      PyInt(FALSE, <<0, 0, 0, 0, 1>>) }

InitAPI ==
    /\ numGpu \in 0..MaxGpu
    /\ rng = FreshRng(numGpu)
    /\ flags \in AllFlags
    /\ exc = "none"
    /\ last = NoCall
    /\ prev = [rng |-> rng, flags |-> flags]
    /\ pc = 0
    /\ cfg = NoSettings
    /\ objs = NoObjects
    /\ training = FALSE
    /\ epoch = 0
    /\ log = <<>>
    /\ clock = 0
    /\ out = NoOutput

\* what a call can read and write: the process-wide state and the names
\* of the caller's namespace; ret is the value the call evaluates to
Process ==
    [rng |-> rng, flags |-> flags, exc |-> exc, cfg |-> cfg, ret |-> ""]

\* set_all_seeds(seed): the body has no return statement and assigns
\* nothing but the environment variable and the generators
call_set_all_seeds(P, seed) ==
    LET res == set_all_seeds(P.rng, seed)
    IN  [P EXCEPT !.rng = res.rng, !.exc = res.exc,
                  !.ret = IF res.exc = "none" THEN "None" ELSE ""]

\* set_deterministic(): the body has no return statement and assigns
\* nothing but the three settings
call_set_deterministic(P, ngpu) ==
    [P EXCEPT !.flags = set_deterministic(P.flags, ngpu), !.ret = "None"]

\* a call of set_all_seeds(seed); an exception it raises is not caught
CallSetAllSeeds ==
    /\ exc = "none"
    /\ \E seed \in SeedInputs :
         LET Q == call_set_all_seeds(Process, seed)
         IN  /\ rng' = Q.rng
             /\ flags' = Q.flags
             /\ exc' = Q.exc
             /\ cfg' = Q.cfg
             /\ last' = [fn |-> "set_all_seeds", seed |-> seed]
    /\ prev' = [rng |-> rng, flags |-> flags]
    /\ UNCHANGED <<numGpu, pc, objs, training, epoch, log, clock, out>>

\* a call of set_deterministic()
CallSetDeterministic ==
    /\ exc = "none"
    /\ LET Q == call_set_deterministic(Process, numGpu)
       IN  /\ rng' = Q.rng
           /\ flags' = Q.flags
           /\ exc' = Q.exc
           /\ cfg' = Q.cfg
    /\ prev' = [rng |-> rng, flags |-> flags]
    /\ last' = [fn |-> "set_deterministic", seed |-> Nat16(0)]
    /\ UNCHANGED <<numGpu, pc, objs, training, epoch, log, clock, out>>

Generators == {"py", "np", "torch"}

\* a value drawn from one of the CPU-side generators
DrawHost ==
    /\ exc = "none"
    /\ \E g \in Generators :
         /\ rng[g].pos < MaxDraws
         /\ rng' = [rng EXCEPT ![g] = Advance(@)]
    /\ prev' = [rng |-> rng, flags |-> flags]
    /\ last' = [fn |-> "draw", seed |-> Nat16(0)]
    /\ UNCHANGED <<numGpu, flags, exc>>
    /\ UNCHANGED nbvars

\* a value drawn from a device's generator
DrawDevice ==
    /\ exc = "none"
    /\ \E d \in DOMAIN rng.cuda :
         /\ rng.cuda[d].pos < MaxDraws
         /\ rng' = [rng EXCEPT !.cuda[d] = Advance(@)]
    /\ prev' = [rng |-> rng, flags |-> flags]
    /\ last' = [fn |-> "draw", seed |-> Nat16(0)]
    /\ UNCHANGED <<numGpu, flags, exc>>
    /\ UNCHANGED nbvars

NextAPI == CallSetAllSeeds \/ CallSetDeterministic \/ DrawHost \/ DrawDevice

SpecAPI == InitAPI /\ [][NextAPI]_vars

-----------------------------------------------------------------------------
(* The notebook, executed top to bottom.  Cells are numbered by their      *)
(* execution count; an exception in a cell ends the execution.             *)

num_classes == 10
random_seed == 1
batch_size == 128
num_epochs == 50

\* learning_rate = 0.01
learning_rate == [num |-> 1, den |-> 100]

\* the notebook with set_deterministic() at the top of both sections
Program_SetDeterministicEachRun ==
    << "prelude", "prelude", "prelude", "prelude", "settings",
       "setdet", "seed", "data", "model", "train",
       "setdet", "seed", "data", "model", "train" >>

\* the notebook with set_deterministic() moved before the first run
Program_SetDeterministicFirst ==
    << "prelude", "prelude", "prelude", "prelude", "settings",
       "setdet", "seed", "data", "model", "train",
       "seed", "data", "model", "train" >>

\* the notebook with both runs set up before either is trained
Program_SetupBeforeTraining ==
    << "prelude", "prelude", "prelude", "prelude", "settings",
       "seed", "data", "model",
       "setdet", "seed", "data", "model", "train", "train" >>

\* the notebook without the second set_all_seeds(random_seed) cell
Program_SeedOnlyOnce ==
    << "prelude", "prelude", "prelude", "prelude", "settings",
       "seed", "data", "model", "train",
       "setdet", "data", "model", "train" >>

\* the notebook with section 3 training the model of section 2 again
Program_ModelReused ==
    << "prelude", "prelude", "prelude", "prelude", "settings",
       "seed", "data", "model", "train",
       "setdet", "seed", "data", "train" >>

\* the notebook without the train(...) cell of section 3
Program_SecondRunNotTrained ==
    << "prelude", "prelude", "prelude", "prelude", "settings",
       "seed", "data", "model", "train",
       "setdet", "seed", "data", "model" >>

\* the code cells, in order: 1-4 watermark, the two helpers' definitions and
\* the imports; 5 SETTINGS; 6-9 section 2; 10-14 section 3
Program ==
    << "prelude", "prelude", "prelude", "prelude", "settings",
       "seed", "data", "model", "train",
       "setdet", "seed", "data", "model", "train" >>

\* the section ("run") a cell belongs to: 1 without, 2 with deterministic
\* behaviour, 0 for the setup
RunOf(cell) ==
    IF cell \in 6..9 THEN 1 ELSE IF cell \in 10..14 THEN 2 ELSE 0

\* a cell run although an earlier cell raised
At_IgnoresFailure(kind) ==
    /\ ~training
    /\ pc \in DOMAIN Program
    /\ Program[pc] = kind

At(kind) ==
    /\ exc = "none"
    /\ ~training
    /\ pc \in DOMAIN Program
    /\ Program[pc] = kind

Entry(fn, seed) ==
    [fn |-> fn, cell |-> pc, seed |-> seed, rng |-> rng, flags |-> flags,
     objs |-> objs, cfg |-> cfg]

Did(fn, seed) ==
    /\ last' = [fn |-> fn, seed |-> seed]
    /\ prev' = [rng |-> rng, flags |-> flags]

\* from deterministic_benchmark_utils import get_dataloaders:
\* two loaders for the batch size; creating them draws no random number
get_dataloaders(o, cell, bsize) ==
    [o EXCEPT !.train_loader = cell, !.test_loader = cell]

\* from deterministic_benchmark_utils import resnet101, then .to(DEVICE)
\* and the Adam optimizer over the model's parameters
resnet101(o, cell, device) ==
    [o EXCEPT !.model = [id |-> cell, device |-> device, epochs |-> 0]]

Adam(o, cell) ==
    [o EXCEPT !.optimizer = [id |-> cell, model |-> o.model.id, steps |-> 0]]

\* the clock read d units after the previous reading, less the start time
\* taken when train(...) began: (time.time() - start_time)
time_elapsed_per_epoch(clk, d) == d

time_elapsed(clk, d) == clk + d

\* the total is read right after the last epoch's line is printed
MaxGapTicks == 1

\* '%.2f' of t units of 0.005 min, in hundredths of a minute
Printed(t) == (t + 1) \div 2

\* 'Train: %.3f%%' of correct_pred / num_examples * 100, in thousandths
accuracy(correct, n) == (correct * 100000) \div n

Init ==
    /\ numGpu \in 0..MaxGpu
    /\ rng = FreshRng(numGpu)
    /\ flags = DefaultFlags
    /\ exc = "none"
    /\ last = NoCall
    /\ prev = [rng |-> rng, flags |-> flags]
    /\ pc = 1
    /\ cfg = NoSettings
    /\ objs = NoObjects
    /\ training = FALSE
    /\ epoch = 0
    /\ log = <<>>
    /\ clock = 0
    /\ out = NoOutput

\* cells 1-4: %watermark, def set_all_seeds, def set_deterministic, imports
Prelude ==
    /\ At("prelude")
    /\ pc' = pc + 1
    /\ Did("prelude", Nat16(0))
    /\ UNCHANGED <<numGpu, rng, flags, exc, cfg, objs, training, epoch, log,
                 clock, out>>

\* cell 5: SETTINGS
Settings ==
    /\ At("settings")
    /\ cfg' = [defined |-> TRUE,
               DEVICE |-> IF torch_cuda_is_available(numGpu)
                          THEN "cuda:0" ELSE "cpu",
               num_classes |-> num_classes,
               random_seed |-> random_seed,
               learning_rate |-> learning_rate,
               batch_size |-> batch_size,
               num_epochs |-> num_epochs]
    /\ pc' = pc + 1
    /\ Did("settings", Nat16(0))
    /\ UNCHANGED <<numGpu, rng, flags, exc, objs, training, epoch, log,
                 clock, out>>

\* cells 6 and 11: set_all_seeds(random_seed)
SeedCell ==
    /\ At("seed")
    /\ LET seed == Nat16(cfg.random_seed)
           res == set_all_seeds(rng, seed)
       IN  /\ rng' = res.rng
           /\ exc' = res.exc
           /\ pc' = IF res.exc = "none" THEN pc + 1 ELSE pc
           /\ log' = Append(log, Entry("set_all_seeds", seed))
           /\ Did("set_all_seeds", seed)
    /\ UNCHANGED <<numGpu, flags, cfg, objs, training, epoch,
                 clock, out>>

\* cell 10: set_deterministic()
SetDeterministicCell ==
    /\ At("setdet")
    /\ flags' = set_deterministic(flags, numGpu)
    /\ pc' = pc + 1
    /\ log' = Append(log, Entry("set_deterministic", Nat16(0)))
    /\ Did("set_deterministic", Nat16(0))
    /\ UNCHANGED <<numGpu, rng, exc, cfg, objs, training, epoch,
                 clock, out>>

\* the dataset cell with section 3 binding batch_size anew, to 256
DatasetCell_RebindsBatchSize ==
    /\ At("data")
    /\ log' = Append(log, Entry("get_dataloaders", Nat16(0)))
    /\ Did("get_dataloaders", Nat16(0))
    /\ cfg' = IF objs.train_loader = 0 THEN cfg
              ELSE [cfg EXCEPT !.batch_size = 256]
    /\ objs' = get_dataloaders(objs, pc, cfg'.batch_size)
    /\ pc' = pc + 1
    /\ UNCHANGED <<numGpu, rng, flags, exc, training, epoch,
                 clock, out>>

\* cells 7 and 12: train_loader, test_loader = get_dataloaders(batch_size)
DatasetCell ==
    /\ At("data")
    /\ log' = Append(log, Entry("get_dataloaders", Nat16(0)))
    /\ Did("get_dataloaders", Nat16(0))
    /\ \/ /\ objs' = get_dataloaders(objs, pc, cfg.batch_size)
          /\ pc' = pc + 1
          /\ UNCHANGED exc
       \/ /\ exc' = "RuntimeError"      \* the dataset is missing
          /\ UNCHANGED <<objs, pc>>
    /\ UNCHANGED <<numGpu, rng, flags, cfg, training, epoch,
                 clock, out>>

\* cells 8 and 13: model = resnet101(...); model.to(DEVICE); optimizer = Adam
ModelCell ==
    /\ At("model")
    /\ log' = Append(log, Entry("resnet101", Nat16(0)))
    /\ Did("resnet101", Nat16(0))
    /\ \/ /\ objs' = Adam(resnet101(objs, pc, cfg.DEVICE), pc)
          /\ rng' = [rng EXCEPT !.torch = Advance(@)]  \* initial weights
          /\ pc' = pc + 1
          /\ UNCHANGED exc
       \/ /\ exc' = "RuntimeError"      \* out of memory
          /\ UNCHANGED <<objs, rng, pc>>
    /\ UNCHANGED <<numGpu, flags, cfg, training, epoch,
                 clock, out>>

\* cells 9 and 14: train(num_epochs, train_loader, model, optimizer, DEVICE)
TrainCall ==
    /\ At("train")
    /\ training' = TRUE
    /\ epoch' = 0
    /\ clock' = 0                       \* start_time = time.time()
    /\ out' = NoOutput
    /\ log' = Append(log, Entry("train", Nat16(0)))
    /\ Did("train", Nat16(0))
    /\ UNCHANGED <<numGpu, rng, flags, exc, pc, cfg, objs>>

\* one epoch of the call in progress: a shuffled pass over train_loader
TrainEpoch ==
    /\ exc = "none"
    /\ training
    /\ epoch < cfg.num_epochs
    /\ epoch' = epoch + 1
    /\ rng' = [rng EXCEPT !.torch = Advance(@)]
    /\ objs' = [objs EXCEPT !.model.epochs = @ + 1, !.optimizer.steps = @ + 1]
    /\ \E d \in 0..MaxEpochTicks, correct \in 0..NumExamples :
          /\ clock' = time_elapsed(clock, d)
          /\ out' = [out EXCEPT
                        !.epoch = epoch + 1,
                        !.acc = accuracy(correct, NumExamples),
                        !.before = out.elapsed,
                        !.elapsed = Printed(clock'),
                        !.deltas = @ + (Printed(clock') - out.elapsed)]
    /\ Did("train", Nat16(0))
    /\ UNCHANGED <<numGpu, flags, exc, pc, cfg, training, log>>

\* the call in progress fails (an operator without a deterministic
\* implementation, out of memory)
TrainFail ==
    /\ exc = "none"
    /\ training
    /\ epoch < cfg.num_epochs
    /\ exc' = "RuntimeError"
    /\ Did("train", Nat16(0))
    /\ UNCHANGED <<numGpu, rng, flags, pc, cfg, objs, training, epoch, log,
                 clock, out>>

\* the call returns after the last epoch
TrainReturn ==
    /\ exc = "none"
    /\ training
    /\ epoch = cfg.num_epochs
    /\ training' = FALSE
    /\ pc' = pc + 1
    /\ \E d \in 0..MaxGapTicks :
          /\ clock' = time_elapsed(clock, d)
          /\ out' = [out EXCEPT !.total = Printed(clock'), !.totals = @ + 1]
    /\ log' = Append(log, Entry("train_return", Nat16(0)))
    /\ Did("train_return", Nat16(0))
    /\ UNCHANGED <<numGpu, rng, flags, exc, cfg, objs, epoch>>

Next ==
    \/ Prelude \/ Settings \/ SeedCell \/ SetDeterministicCell
    \/ DatasetCell \/ ModelCell
    \/ TrainCall \/ TrainEpoch \/ TrainFail \/ TrainReturn

Spec == Init /\ [][Next]_vars

\* the kernel runs the cells one after the other without pausing, and an
\* epoch that does not fail ends
FairSpec == Init /\ [][Next]_vars /\ WF_vars(Next)

-----------------------------------------------------------------------------
(* Claims about the two helpers, checked under SpecAPI.                    *)

Returned(fn) == last.fn = fn /\ exc = "none"

Two32Minus1 == PyInt(FALSE, <<Limb - 1, Limb - 1>>)

\* C1: when set_all_seeds(s) has returned, PL_GLOBAL_SEED is the decimal
\* string of s and the general, the array-library, the framework CPU and
\* every framework accelerator generator have been seeded with exactly s.
C1_AllSeedHoldersCarrySeed ==
    Returned("set_all_seeds") =>
        /\ rng.env = str(last.seed)
        /\ rng.py = Seeded(last.seed)
        /\ rng.np = Seeded(last.seed)
        /\ rng.torch = Seeded(last.seed)
        /\ Len(rng.cuda) = numGpu
        /\ \A d \in 1..numGpu : rng.cuda[d] = Seeded(last.seed)

\* set_all_seeds(2^32 - 1) has returned on a machine with an accelerator,
\* called after every generator had been seeded otherwise and drawn from
C1_Witness ==
    /\ Returned("set_all_seeds")
    /\ last.seed = Two32Minus1
    /\ rng.env = <<"4", "2", "9", "4", "9", "6", "7", "2", "9", "5">>
    /\ numGpu > 0
    /\ rng.cuda[1] = Seeded(Two32Minus1)
    /\ prev.rng.py = Advance(Seeded(Nat16(1)))
    /\ prev.rng.cuda[1] = Advance(Seeded(Nat16(1)))

\* C2: the state in which a call set_all_seeds(s) leaves the generators
\* depends on s alone: it is the state the same call produces in a fresh
\* process, whatever was seeded or drawn before (the draws that follow are a
\* function of that state).
C2_SeedingErasesHistory ==
    last.fn = "set_all_seeds" =>
        rng = set_all_seeds(FreshRng(numGpu), last.seed).rng

\* C2 for the calls that return (0 <= s < 2^32): the generators are left in
\* the state the same call produces in a fresh process.
C2_SeedingErasesHistoryOnReturn ==
    Returned("set_all_seeds") =>
        rng = set_all_seeds(FreshRng(numGpu), last.seed).rng

\* set_all_seeds(1) has returned after seedings with another value and draws
\* from the general, the array-library and the framework generators
C2_Witness ==
    /\ Returned("set_all_seeds")
    /\ last.seed = Nat16(1)
    /\ prev.rng.env = <<"0">>
    /\ prev.rng.py = Advance(Seeded(Nat16(0)))
    /\ prev.rng.np = Advance(Seeded(Nat16(0)))
    /\ prev.rng.torch = Advance(Seeded(Nat16(0)))
    /\ rng.np = Seeded(Nat16(1))

\* C3: set_all_seeds raises for no integer seed.
C3_NeverFails == last.fn = "set_all_seeds" => exc = "none"

\* C4: with an accelerator present, set_deterministic() leaves
\* cudnn.benchmark False, cudnn.deterministic True and the deterministic
\* mode on, whatever the three were before.
C4_DeterministicWithAccelerator ==
    (Returned("set_deterministic") /\ torch_cuda_is_available(numGpu)) =>
        flags = [benchmark |-> FALSE, deterministic |-> TRUE, detAlgos |-> TRUE]

\* set_deterministic() has returned on a machine with an accelerator where
\* the three settings were the opposite before
C4_Witness ==
    /\ Returned("set_deterministic")
    /\ numGpu > 0
    /\ prev.flags = [benchmark |-> TRUE, deterministic |-> FALSE, detAlgos |-> FALSE]
    /\ flags = [benchmark |-> FALSE, deterministic |-> TRUE, detAlgos |-> TRUE]

\* C5 as stated: without an accelerator set_deterministic() changes none of
\* the three settings, so the deterministic mode is on afterwards only if an
\* accelerator is present or it was on before.
C5_NoAcceleratorNoChange ==
    Returned("set_deterministic") =>
        /\ ~torch_cuda_is_available(numGpu) => flags = prev.flags
        /\ flags.detAlgos =>
               torch_cuda_is_available(numGpu) \/ prev.flags.detAlgos

\* C5 amended: without an accelerator set_deterministic() leaves
\* cudnn.benchmark and cudnn.deterministic as they were and turns the
\* deterministic mode on.
C5_NoAcceleratorOnlyMode ==
    (Returned("set_deterministic") /\ ~torch_cuda_is_available(numGpu)) =>
        /\ flags.benchmark = prev.flags.benchmark
        /\ flags.deterministic = prev.flags.deterministic
        /\ flags.detAlgos

\* set_deterministic() has returned on a machine without an accelerator
\* where benchmark was on and the other two were off
C5_Witness ==
    /\ Returned("set_deterministic")
    /\ numGpu = 0
    /\ prev.flags = [benchmark |-> TRUE, deterministic |-> FALSE, detAlgos |-> FALSE]
    /\ flags = [benchmark |-> TRUE, deterministic |-> FALSE, detAlgos |-> TRUE]

-----------------------------------------------------------------------------
(* Claims about the notebook's execution, checked under Spec.  They are    *)
(* stated over log, the calls made so far with the process state at each.  *)

\* the number of calls of fn among the first n calls
Count(fn, n) == Cardinality({j \in 1..n : log[j].fn = fn})

Calls(fn) == Count(fn, Len(log))

\* the position in log of the k-th call of fn
Kth(fn, k) == CHOOSE i \in 1..Len(log) : log[i].fn = fn /\ Count(fn, i) = k

Finished == pc > Len(Program)

\* the steps of a training run
RunSteps == {"set_all_seeds", "get_dataloaders", "resnet101", "train"}

\* the settings set_deterministic() leaves in the notebook's process
DeterministicFlags ==
    [benchmark |-> FALSE, deterministic |-> torch_cuda_is_available(numGpu),
     detAlgos |-> TRUE]

\* C6: set_deterministic() is called once, and once it has returned the
\* settings keep the values it left (benchmark off, deterministic mode on,
\* cudnn.deterministic on where there is an accelerator) through every later
\* step to the end of the process.
C6_DeterminismSetOnceAndKept ==
    /\ Calls("set_deterministic") <= 1
    /\ Finished => Calls("set_deterministic") = 1
    /\ Calls("set_deterministic") = 1 =>
          /\ ~flags.benchmark
          /\ flags.detAlgos
          /\ flags = DeterministicFlags

\* the second train(...) call has returned, on a machine with an accelerator
C6_Witness ==
    /\ Finished
    /\ exc = "none"
    /\ numGpu > 0
    /\ Calls("train_return") = 2
    /\ Calls("set_deterministic") = 1
    /\ flags = [benchmark |-> FALSE, deterministic |-> TRUE, detAlgos |-> TRUE]

\* C7: set_deterministic() is not called before the first train(...) call
\* has returned and the settings are the defaults until then; it has returned
\* before the second run's seeding, loaders, model and train(...) call, each
\* of which starts with the deterministic mode on.
C7_FirstRunOffSecondRunOn ==
    /\ Calls("train_return") = 0 =>
          Calls("set_deterministic") = 0 /\ flags = DefaultFlags
    /\ \A i \in 1..Len(log) :
          /\ log[i].fn = "set_deterministic" => Count("train_return", i) >= 1
          /\ (log[i].fn \in RunSteps /\ Count(log[i].fn, i) = 1) =>
                log[i].flags = DefaultFlags
          /\ (log[i].fn \in RunSteps /\ Count(log[i].fn, i) = 2) =>
                /\ Count("set_deterministic", i) = 1
                /\ log[i].flags.detAlgos
          /\ (log[i].fn = "train_return" /\ Count("train_return", i) = 1) =>
                log[i].flags = DefaultFlags

\* the second train(...) call is in progress with the deterministic mode on,
\* the first having run all its epochs with the defaults
C7_Witness ==
    /\ training
    /\ epoch = 1
    /\ Calls("train") = 2
    /\ flags.detAlgos
    /\ log[Kth("train_return", 1)].flags = DefaultFlags
    /\ log[Kth("train_return", 1)].objs.model.epochs = num_epochs

\* C8: at most one train(...) call is in progress, and the second run's
\* loaders, model, optimizer and train(...) call come after the first
\* train(...) call has returned.
C8_RunsSequential ==
    /\ Calls("train") - Calls("train_return") = IF training THEN 1 ELSE 0
    /\ \A i \in 1..Len(log) :
          (log[i].fn \in {"get_dataloaders", "resnet101", "train"}
             /\ Count(log[i].fn, i) = 2) =>
                /\ Count("train_return", i) = 1
                /\ Kth("train_return", 1) > Kth("train", 1)

\* the second run's loaders are being created after the first call returned
C8_Witness ==
    /\ Calls("get_dataloaders") = 2
    /\ Calls("train") = 1
    /\ Calls("train_return") = 1
    /\ ~training
    /\ objs.model.epochs = num_epochs

\* C9: each run calls set_all_seeds once, with random_seed = 1, before its
\* get_dataloaders, resnet101/Adam and train calls, and nothing draws a
\* random number between the start of the run and that call.
C9_SeededAtStartOfEachRun ==
    /\ Calls("set_all_seeds") <= 2
    /\ Finished => Calls("set_all_seeds") = 2
    /\ \A i \in 1..Len(log) :
          /\ log[i].fn = "set_all_seeds" =>
                /\ log[i].seed = Nat16(1)
                /\ Count("train_return", i) = Count("set_all_seeds", i) - 1
                /\ log[i].rng =
                      IF Count("train_return", i) = 0 THEN FreshRng(numGpu)
                      ELSE log[Kth("train_return", Count("train_return", i))].rng
          /\ log[i].fn \in {"get_dataloaders", "resnet101", "train"} =>
                /\ Count("set_all_seeds", i) = Count(log[i].fn, i)
                /\ Count("train_return", i) = Count(log[i].fn, i) - 1

\* the second run has been seeded and its model built, after the first run
\* had drawn from the framework generator
C9_Witness ==
    /\ Calls("resnet101") = 2
    /\ Calls("set_all_seeds") = 2
    /\ log[Kth("set_all_seeds", 2)].seed = Nat16(1)
    /\ log[Kth("set_all_seeds", 2)].rng.torch.pos = num_epochs + 1
    /\ log[Kth("get_dataloaders", 2)].rng.torch = Seeded(Nat16(1))

\* C10 as stated: when a run begins its setup (get_dataloaders), the
\* generators and the determinism settings are as they were when the other
\* run began its setup.
C10_SameStateBeforeEachRun ==
    Calls("get_dataloaders") = 2 =>
        /\ log[Kth("get_dataloaders", 1)].rng = log[Kth("get_dataloaders", 2)].rng
        /\ log[Kth("get_dataloaders", 1)].flags = log[Kth("get_dataloaders", 2)].flags

\* C10 amended: when a run begins its setup the generators (and
\* PL_GLOBAL_SEED) are as they were when the other run began its setup; the
\* determinism settings are the defaults for the first run and those left by
\* set_deterministic() for the second.
C10_SameSeedStateBeforeEachRun ==
    /\ Calls("get_dataloaders") >= 1 =>
          log[Kth("get_dataloaders", 1)].flags = DefaultFlags
    /\ Calls("get_dataloaders") = 2 =>
          /\ log[Kth("get_dataloaders", 1)].rng = log[Kth("get_dataloaders", 2)].rng
          /\ log[Kth("get_dataloaders", 2)].flags = DeterministicFlags

\* the second run begins its setup, freshly seeded, after the first run
\* advanced the framework generator
C10_Witness ==
    /\ Calls("get_dataloaders") = 2
    /\ log[Kth("get_dataloaders", 2)].rng.torch = Seeded(Nat16(1))
    /\ log[Kth("get_dataloaders", 2)].rng.env = <<"1">>
    /\ log[Kth("set_all_seeds", 2)].rng.torch.pos = num_epochs + 1
    /\ log[Kth("get_dataloaders", 2)].flags.detAlgos

\* the names the SETTINGS cell binds, as written in the cell
SettingsAsWritten ==
    [defined |-> TRUE,
     DEVICE |-> IF numGpu > 0 THEN "cuda:0" ELSE "cpu",
     num_classes |-> 10, random_seed |-> 1,
     learning_rate |-> [num |-> 1, den |-> 100],
     batch_size |-> 128, num_epochs |-> 50]

\* C11: once the SETTINGS cell has run, num_classes, random_seed,
\* learning_rate, batch_size, num_epochs and DEVICE keep the values it bound
\* (DEVICE the accelerator exactly when there is one) to the end of the
\* second train(...) call, and every set_all_seeds, get_dataloaders,
\* resnet101/Adam and train call of either run is made with those values.
C11_ConfigurationReadOnly ==
    /\ cfg.defined => cfg = SettingsAsWritten
    /\ ~cfg.defined => log = <<>>
    /\ \A i \in 1..Len(log) : log[i].cfg = SettingsAsWritten

\* the second train(...) call has returned on a machine with an accelerator,
\* both runs' calls having been made with the same configuration
C11_Witness ==
    /\ Finished
    /\ Calls("train_return") = 2
    /\ numGpu > 0
    /\ cfg.DEVICE = "cuda:0"
    /\ cfg.batch_size = 128
    /\ log[Kth("get_dataloaders", 1)].cfg = log[Kth("train", 2)].cfg
    /\ objs.model.device = "cuda:0"

\* C12: a failure is not recovered from.  Every step is taken by a process
\* in which nothing has failed, so after a failure no cell is retried and no
\* later cell runs; the failing step moves neither the position in the
\* notebook nor the determinism settings (no fallback); and a failure before
\* the first train(...) call has returned leaves the second run unstarted.
C12_FailuresPropagate ==
    [][ /\ exc = "none"
        /\ exc' # "none" =>
              /\ pc' = pc
              /\ flags' = flags
              /\ training' = training
              /\ (Calls("train_return") = 0) =>
                    (Calls("set_deterministic") = 0 /\ Calls("train") <= 1)' ]_vars

\* the first train(...) call has failed after some epochs; the second run
\* has not started
C12_Witness ==
    /\ exc = "RuntimeError"
    /\ training
    /\ epoch > 0
    /\ Calls("train") = 1
    /\ Calls("set_deterministic") = 0
    /\ pc = 9

\* C13: within a train(...) call the elapsed time printed after an epoch is
\* non-negative and not smaller than the one printed after the epoch
\* before; the differences between successive printed values add up to the
\* last printed value; and the total training time printed when the call
\* returns is that value to within 0.01 min.
C13_ElapsedMonotoneTotalIsSum ==
    /\ out.elapsed >= 0
    /\ out.before >= 0
    /\ out.before <= out.elapsed
    /\ out.deltas = out.elapsed
    /\ out.totals > 0 =>
          /\ out.total - out.deltas \in 0..1
          /\ out.total - out.elapsed \in 0..1

\* the second run has returned: its epochs took time, and the total is
\* printed 0.01 min above the last epoch's elapsed time
C13_Witness ==
    /\ Finished
    /\ Calls("train_return") = 2
    /\ out.epoch = num_epochs
    /\ out.totals = 1
    /\ 0 < out.before
    /\ out.deltas = out.elapsed
    /\ out.total = out.elapsed + 1

\* C14: the epochs of a train(...) call are numbered 1, 2, ... num_epochs,
\* each number one more than the one before; every epoch reports an
\* accuracy between 0 and 100 percent; the total training time is printed
\* once, after epoch num_epochs, when the call returns; and unless a
\* failure ends the execution the notebook reaches its end with both
\* train(...) calls returned.
C14_BothRunsComplete ==
    /\ [](/\ out.epoch \in 0..num_epochs
          /\ training => (out.epoch = epoch /\ out.totals = 0)
          /\ training => objs.model.epochs = epoch
          /\ \A i \in 1..Len(log) :
                log[i].fn = "train_return" =>
                   log[i].objs.model.epochs = num_epochs
          /\ out.acc \in 0..100000
          /\ out.totals \in 0..1
          /\ out.totals = 1 => out.epoch = num_epochs
          /\ (Calls("train_return") > 0 /\ ~training) =>
                (out.totals = 1 /\ out.epoch = 50))
    /\ [][ /\ out'.epoch # out.epoch =>
                \/ out'.epoch = out.epoch + 1
                \/ out'.epoch = 0 /\ training' /\ ~training
           /\ out'.totals # out.totals =>
                \/ out'.totals = 1 /\ training /\ ~training'
                \/ out'.totals = 0 /\ training' /\ ~training ]_vars
    /\ <>(exc # "none" \/ (Finished /\ Calls("train_return") = 2))

\* the notebook has reached its end: the second call has printed epoch 50
\* with every example classified correctly and then the total
C14_Witness ==
    /\ Finished
    /\ exc = "none"
    /\ Calls("train") = 2
    /\ Calls("train_return") = 2
    /\ out.epoch = 50
    /\ objs.model.epochs = 50
    /\ out.acc = 100000
    /\ out.totals = 1

\* C15: the loaders, model and optimizer passed to the second train(...)
\* call were created by the second get_dataloaders and resnet101/Adam
\* cells, both run after the first train(...) call returned and after the
\* second set_all_seeds; they are not the objects of the first run, the
\* optimizer is the one over the new model, and neither has been trained.
C15_SecondRunBuiltAfresh ==
    \A t \in 1..Len(log) :
       (log[t].fn = "train" /\ Count("train", t) = 2) =>
          /\ Count("train_return", t) = 1
          /\ Count("set_all_seeds", t) = 2
          /\ Count("get_dataloaders", t) = 2
          /\ Count("resnet101", t) = 2
          /\ LET passed == log[t].objs
                 first == log[Kth("train", 1)].objs
                 after == { Kth("train_return", 1), Kth("set_all_seeds", 2) }
                 d == Kth("get_dataloaders", 2)
                 m == Kth("resnet101", 2)
             IN  /\ \A a \in after : a < d /\ a < m
                 /\ passed.train_loader = log[d].cell
                 /\ passed.model.id = log[m].cell
                 /\ passed.optimizer.id = log[m].cell
                 /\ passed.optimizer.model = passed.model.id
                 /\ passed.train_loader # first.train_loader
                 /\ passed.model.id # first.model.id
                 /\ passed.optimizer.id # first.optimizer.id
                 /\ passed.model.epochs = 0
                 /\ passed.optimizer.steps = 0

\* the second train(...) call is under way on the model of cell 13, while
\* the first run left the model of cell 8 trained for 50 epochs
C15_Witness ==
    /\ training
    /\ Calls("train") = 2
    /\ epoch > 0
    /\ objs.model.id = 13
    /\ objs.optimizer.id = 13
    /\ objs.train_loader = 12
    /\ log[Kth("train", 1)].objs.model.id = 8
    /\ log[Kth("train_return", 1)].objs.optimizer.steps = num_epochs
    /\ log[Kth("train", 2)].objs.optimizer.steps = 0

-----------------------------------------------------------------------------
(* The two helpers together, checked under SpecAPI.                        *)

\* the process before the most recent call
Before ==
    [rng |-> prev.rng, flags |-> prev.flags, exc |-> "none", cfg |-> cfg,
     ret |-> ""]

\* set_all_seeds(seed) and then, if it returned, set_deterministic()
SeedsThenDeterministic(P, seed, ngpu) ==
    LET Q == call_set_all_seeds(P, seed)
    IN  IF Q.exc # "none" THEN Q ELSE call_set_deterministic(Q, ngpu)

\* set_deterministic() and then set_all_seeds(seed)
DeterministicThenSeeds(P, seed, ngpu) ==
    call_set_all_seeds(call_set_deterministic(P, ngpu), seed)

\* set_all_seeds(s) leaves the settings as they were, set_deterministic()
\* leaves PL_GLOBAL_SEED and every generator as they were, a call that
\* returns evaluates to None, and the caller's names are not bound.
C16_FrameEffects ==
    /\ cfg = NoSettings
    /\ last.fn = "set_all_seeds" =>
          /\ call_set_all_seeds(Before, last.seed).rng = rng
          /\ call_set_all_seeds(Before, last.seed).exc = exc
          /\ flags = prev.flags
          /\ exc = "none" => call_set_all_seeds(Before, last.seed).ret = "None"
    /\ last.fn = "set_deterministic" =>
          /\ call_set_deterministic(Before, numGpu).flags = flags
          /\ call_set_deterministic(Before, numGpu).ret = "None"
          /\ rng = prev.rng
          /\ exc = "none"

\* C16: the two helpers do not interfere: each leaves the other's state as
\* it was, neither returns a value or binds a hyperparameter, and from the
\* state either was called in, set_all_seeds(s) followed by
\* set_deterministic() ends in the same process state as
\* set_deterministic() followed by set_all_seeds(s).
C16_RoutinesDoNotInterfere ==
    /\ C16_FrameEffects
    /\ last.fn = "set_all_seeds" =>
          SeedsThenDeterministic(Before, last.seed, numGpu)
             = DeterministicThenSeeds(Before, last.seed, numGpu)

\* set_all_seeds(s) has returned after draws and a set_deterministic()
\* call changed the state, and the two orders agree
C16_Witness ==
    /\ Returned("set_all_seeds")
    /\ last.seed = Two32Minus1
    /\ prev.rng.np.seeded
    /\ prev.rng.np.pos > 0
    /\ flags.detAlgos
    /\ flags = prev.flags
    /\ SeedsThenDeterministic(Before, last.seed, numGpu)
          = DeterministicThenSeeds(Before, last.seed, numGpu)
    /\ SeedsThenDeterministic(Before, last.seed, numGpu).rng = rng
=============================================================================
